---- MODULE Spec2Model ----
(***************************************************************************)
(* A model of french_vocabs: the job supervisor of job_manager.py (one     *)
(* process-wide job slot, child processes, per-job log files), the word    *)
(* generator of generate_words.py (extract_words and the batch loop of     *)
(* main), and the sentence generator of generate_sentences.py (the scan    *)
(* loop of main, process_file and the ledger of processed files).          *)
(*                                                                         *)
(* Text is modelled as a sequence of Unicode code points, so that strip,   *)
(* lower, replace, splitlines and the WORD_TOKEN regular expression are    *)
(* computed as Python computes them.                                       *)
(***************************************************************************)
EXTENDS Integers, Sequences, FiniteSets, TLC

VARIABLES
    \* ---- job_manager.py (the web process) ----
    current_job,     \* _current_job: a Job record, or NoJob for None
    procs,           \* every child launched so far: OS state and the log it writes to
    now,             \* the last reading of datetime.now(), in ticks of half a second
    log_dir_exists,  \* whether log_dir has been created
    log_files,       \* the files of log_dir: path -> sequence of lines
    jobs_created,    \* history: the id of every Job ever created, in order
    abandoned,       \* history: handles cleared by stop while the child was alive
    last,            \* the last supervisor call: arguments, result, effects
    \* ---- generate_words.py: extract_words on one input ----
    raw,             \* the argument of extract_words (code points)
    res,             \* its return value, NotCalled before the call
    first_res,       \* history: what it returned for raw before it was called on its own output
    \* ---- generate_words.py: main ----
    pc,              \* position of main in its loops
    batch_size,      \* args.batch_size
    batch_counter,
    current_batch,
    calls,
    got,             \* the list extract_words returned for the call being processed
    got_idx,         \* position of the for loop in got
    added,           \* tokens added by the call being processed
    got_log,         \* history: concatenation of the lists extract_words returned in this batch
    failed_calls,    \* history: number of calls of this batch that raised
    batch_files,     \* the batch files written so far, in order: token lists
    \* ---- generate_sentences.py: main and process_file ----
    spc,             \* position of main / process_file
    input_files,     \* input_dir: path of a .txt file -> the list read_words gives for it
    ledger_text,     \* the text of processed.txt (empty when the file is absent)
    out_dirs,        \* the directories made under output_dir
    out_docs,        \* the documents under output_dir: <<base, part>> -> content
    processed,       \* the set main holds
    files,           \* the sorted list of the scan in progress
    f_idx,           \* position of the for loop in files
    words,           \* process_file: the words of in_file
    b_idx,           \* process_file: number of the sub-batch in progress
    w_idx,           \* process_file: position of the for loop in the sub-batch
    attempt,         \* the loop variable of the retry loop in progress
    meaning_text,    \* "" for None
    sentences_text,  \* "" for None
    all_content,     \* the blocks of the document being assembled
    step_log,        \* history: how the post_ollama calls of the two steps of the current word ended
    appended,        \* history: every item append_processed was called with, in order
    runs             \* history: number of times main was started

supVars == <<current_job, procs, now, log_dir_exists, log_files, jobs_created, abandoned, last>>
extVars == <<raw, res, first_res>>
wordVars == <<pc, batch_size, batch_counter, current_batch, calls, got, got_idx, added,
              got_log, failed_calls, batch_files>>
sentVars == <<spc, input_files, ledger_text, out_dirs, out_docs, processed, files, f_idx,
              words, b_idx, w_idx, attempt, meaning_text, sentences_text, all_content,
              step_log, appended, runs>>
vars == <<supVars, extVars, wordVars, sentVars>>

\* ------------------------------------------------------------------ bounds
MaxProcs == 2          \* children launched in one run of the model
MaxTicks == 1          \* last reading of the clock
MaxLogLines == 2       \* lines in log_dir beyond which the children write no more
MaxTail == 1           \* largest max_lines passed to get_log_tail
MaxBatchSize == 5      \* largest --batch-size
MaxCallsPerBatch == 3  \* --max-calls-per-batch
MaxBatches == 2        \* batches started in one run of the model
MaxFairBatchSize == 2  \* largest --batch-size of the runs checked for termination
MaxPieces == 4         \* fragments concatenated into one text given to extract_words
MaxWords == 23         \* words in the largest input file of the sentence generator
MaxFailingWord == 1    \* position in its file of the last word whose model calls may raise
MaxRuns == 2           \* times the sentence generator is started
MaxFairWords == 11     \* words of the input file in the runs checked for progress

\* ------------------------------------------------------------------ helpers
Min(a, b) == IF a < b THEN a ELSE b
Max(a, b) == IF a < b THEN b ELSE a
Range(s) == { s[i] : i \in 1..Len(s) }

\* Python's s[start:] on a list: a negative start counts from the end, and
\* the bounds are clamped.
PySliceFrom(s, start) ==
    LET lo == IF start < 0 THEN Max(Len(s) + start, 0) ELSE Min(start, Len(s))
    IN  SubSeq(s, lo + 1, Len(s))

\* ------------------------------------------------------------- job_manager
JobTypes == {"words", "sentences", "other"}
KnownJobTypes == {"words", "sentences"}

\* strftime("%Y%m%d-%H%M%S"): the clock truncated to whole seconds.  The clock
\* of the model starts half a second before a second begins.
Timestamp(t) == (t + 1) \div 2

\* f"{job_type}_{ts}"
JobId(job_type, t) == <<job_type, Timestamp(t)>>

\* _current_job = None
NoJob == [id |-> <<"", 0>>, job_type |-> "", log_path |-> <<"", 0>>,
          started_at |-> 0, process |-> 0]

\* process.poll() is None
PollIsNone(job) == procs[job.process].state = "running"

\* A line of a log file is modelled by its line number in the file: the start
\* marker start_job writes and each line of child output extend the file by the
\* next line.
WriteLine(f) == Append(f, Len(f) + 1)

NoCall == [op |-> "none", job_type |-> "", max_lines |-> 0, raised |-> "", ret_job |-> NoJob, ret_lines |-> <<>>,
           pre |-> NoJob, launched |-> 0, terminated |-> FALSE, outcome |-> ""]

\* (mutant) every job type gets a command line
IsKnownJobType_any(job_type) == TRUE

\* the if / elif / else over job_type, lines 38-67
IsKnownJobType(job_type) == job_type \in KnownJobTypes

\* (mutant) the guard without the poll: any existing Job blocks, none is checked for life
AlreadyRunning_never == FALSE

\* the guard of start_job, line 28
AlreadyRunning == current_job # NoJob /\ PollIsNone(current_job)

\* t is what datetime.now() reads at line 34: the clock is read nowhere else, and
\* no reading is earlier than the one before it.  (started_at, a second reading
\* that nothing uses, is given the same value.)
start_job(job_type, t) ==
    LET job_id == JobId(job_type, t)
        log_path == job_id
        marked == IF log_path \in DOMAIN log_files
                  THEN WriteLine(log_files[log_path])
                  ELSE WriteLine(<<>>)
        proc == Len(procs) + 1
        job == [id |-> job_id, job_type |-> job_type, log_path |-> log_path,
                started_at |-> t, process |-> proc]
    IN
    IF AlreadyRunning
    THEN /\ last' = [NoCall EXCEPT !.op = "start", !.job_type = job_type, !.pre = current_job,
                                   !.raised = "RuntimeError"]
         /\ UNCHANGED <<current_job, procs, now, log_dir_exists, log_files, jobs_created,
                        abandoned>>
    ELSE IF ~IsKnownJobType(job_type)
    THEN /\ log_dir_exists' = TRUE
         /\ now' = t
         /\ last' = [NoCall EXCEPT !.op = "start", !.job_type = job_type, !.pre = current_job,
                                   !.raised = "ValueError"]
         /\ UNCHANGED <<current_job, procs, log_files, jobs_created, abandoned>>
    ELSE /\ Len(procs) < MaxProcs
         /\ log_dir_exists' = TRUE
         /\ log_files' = [p \in DOMAIN log_files \cup {log_path} |->
                            IF p = log_path THEN marked ELSE log_files[p]]
         /\ procs' = Append(procs, [state |-> "running", log_path |-> log_path])
         /\ current_job' = job
         /\ jobs_created' = Append(jobs_created, job_id)
         /\ last' = [NoCall EXCEPT !.op = "start", !.job_type = job_type, !.pre = current_job,
                                   !.ret_job = job, !.launched = proc]
         /\ now' = t
         /\ UNCHANGED abandoned

\* What terminate() followed by wait(timeout=10) can do to a live child.
StopOutcomes == {"exited", "timeout", "terminate_raises", "wait_raises"}

\* The exception the body of the try block (lines 95-96) ends with, "" for none.
TerminateAndWait(outcome) ==
    CASE outcome = "exited" -> ""
      [] outcome = "timeout" -> "TimeoutExpired"
      [] outcome = "terminate_raises" -> "OSError"
      [] outcome = "wait_raises" -> "OSError"

\* (mutant) no except clause around terminate and wait
ExceptPass_none(exc) == exc

\* except Exception: pass -- what still propagates out of the try statement
ExceptPass(exc) == IF exc \in {"TimeoutExpired", "OSError"} THEN "" ELSE exc

\* (mutant) no early return: None.process raises
StopNoJob_deref ==
    /\ last' = [NoCall EXCEPT !.op = "stop", !.raised = "AttributeError"]
    /\ UNCHANGED <<current_job, procs, now, log_dir_exists, log_files, jobs_created,
                   abandoned>>

\* the early return of stop_current_job, lines 91-92
StopNoJob ==
    /\ last' = [NoCall EXCEPT !.op = "stop"]
    /\ UNCHANGED <<current_job, procs, now, log_dir_exists, log_files, jobs_created,
                   abandoned>>

stop_current_job(outcome) ==
    IF current_job = NoJob
    THEN StopNoJob
    ELSE LET p == current_job.process
             live == PollIsNone(current_job)
             dies == live /\ outcome = "exited"
             exc == IF live THEN ExceptPass(TerminateAndWait(outcome)) ELSE ""
             cleared == exc = ""
         IN
         /\ procs' = IF dies THEN [procs EXCEPT ![p].state = "exited"] ELSE procs
         /\ abandoned' = IF cleared /\ live /\ ~dies THEN abandoned \cup {p} ELSE abandoned
         /\ current_job' = IF cleared THEN NoJob ELSE current_job
         /\ last' = [NoCall EXCEPT !.op = "stop", !.pre = current_job, !.raised = exc,
                                   !.terminated = (live /\ outcome # "terminate_raises"),
                                   !.outcome = IF live THEN outcome ELSE "not_running"]
         /\ UNCHANGED <<now, log_dir_exists, log_files, jobs_created>>

\* (mutant) a status call that drops a Job whose process has exited
get_current_job_reaping ==
    LET job == IF current_job # NoJob /\ ~PollIsNone(current_job) THEN NoJob ELSE current_job
    IN  /\ current_job' = job
        /\ last' = [NoCall EXCEPT !.op = "status", !.pre = current_job, !.ret_job = job]
        /\ UNCHANGED <<procs, now, log_dir_exists, log_files, jobs_created, abandoned>>

\* lines 102-103
get_current_job ==
    /\ last' = [NoCall EXCEPT !.op = "status", !.pre = current_job, !.ret_job = current_job]
    /\ UNCHANGED <<current_job, procs, now, log_dir_exists, log_files, jobs_created, abandoned>>

\* The lines of the text get_log_tail returns.
LogTail(job, logs, max_lines) ==
    IF job = NoJob \/ job.log_path \notin DOMAIN logs
    THEN <<>>
    ELSE LET lines == logs[job.log_path]
         IN  IF Len(lines) <= max_lines
             THEN lines
             ELSE PySliceFrom(lines, 0 - max_lines)

get_log_tail(max_lines) ==
    /\ last' = [NoCall EXCEPT !.op = "tail", !.max_lines = max_lines, !.pre = current_job,
                              !.ret_lines = LogTail(current_job, log_files, max_lines)]
    /\ UNCHANGED <<current_job, procs, now, log_dir_exists, log_files, jobs_created, abandoned>>

\* ---- the environment of the supervisor
\* the number of lines in all the files of log_dir
RECURSIVE SumLen(_, _)
SumLen(logs, paths) ==
    IF paths = {} THEN 0
    ELSE LET p == CHOOSE q \in paths : TRUE
         IN  Len(logs[p]) + SumLen(logs, paths \ {p})

TotalLines == SumLen(log_files, DOMAIN log_files)

ChildExit(p) ==
    /\ procs[p].state = "running"
    /\ procs' = [procs EXCEPT ![p].state = "exited"]
    /\ UNCHANGED <<current_job, now, log_dir_exists, log_files, jobs_created, abandoned, last>>

ChildWrite(p) ==
    LET path == procs[p].log_path IN
    /\ procs[p].state = "running"
    /\ path \in DOMAIN log_files
    /\ TotalLines < MaxLogLines
    /\ log_files' = [log_files EXCEPT ![path] = WriteLine(@)]
    /\ UNCHANGED <<current_job, procs, now, log_dir_exists, jobs_created, abandoned, last>>

\* The current Job's log file is deleted from outside (what log_path.exists()
\* of get_log_tail guards against).
LogRemoved ==
    LET path == current_job.log_path IN
    /\ current_job # NoJob
    /\ path \in DOMAIN log_files
    /\ log_files' = [p \in DOMAIN log_files \ {path} |-> log_files[p]]
    /\ UNCHANGED <<current_job, procs, now, log_dir_exists, jobs_created, abandoned, last>>

\* ------------------------------------------------- generate_words.py: text
\* A string is a sequence of code points.  The ones the code names:
Apostrophe == 39          \* '
CurlyApostrophe == 8217   \* the right single quotation mark
Hyphen == 45              \* -
LineFeed == 10            \* \n
CarriageReturn == 13      \* \r
DE_LA == <<100, 101, 32, 108, 97>>   \* "de la"

\* str.splitlines: the line boundaries
LineBreaks == {10, 11, 12, 13, 28, 29, 30, 133, 8232, 8233}

\* str.strip: the code points with str.isspace
WhiteSpace == (9..13) \cup (28..32) \cup {133, 160, 5760} \cup (8192..8202)
                \cup {8232, 8233, 8239, 8287, 12288}

\* the first character class of WORD_TOKEN: [A-Za-zÀ-ÖØ-öø-ÿœŒçÇ]
TokenStart == (65..90) \cup (97..122) \cup (192..214) \cup (216..246) \cup (248..255)
                \cup {339, 338, 231, 199}

\* the second character class of WORD_TOKEN: the first, and ' ’ -
TokenRest == TokenStart \cup {Apostrophe, CurlyApostrophe, Hyphen}

\* str.splitlines(): lines end at a line boundary (\r\n is one boundary); the
\* boundaries are dropped and a final boundary opens no empty last line.
RECURSIVE SplitFrom(_, _, _, _)
SplitFrom(s, i, cur, acc) ==
    IF i > Len(s)
    THEN IF cur = <<>> THEN acc ELSE Append(acc, cur)
    ELSE IF s[i] \in LineBreaks
    THEN IF s[i] = CarriageReturn /\ i < Len(s) /\ s[i + 1] = LineFeed
         THEN SplitFrom(s, i + 2, <<>>, Append(acc, cur))
         ELSE SplitFrom(s, i + 1, <<>>, Append(acc, cur))
    ELSE SplitFrom(s, i + 1, Append(cur, s[i]), acc)

SplitLines(s) == SplitFrom(s, 1, <<>>, <<>>)

\* str.strip()
Strip(s) ==
    LET keep == { i \in 1..Len(s) : s[i] \notin WhiteSpace }
    IN  IF keep = {} THEN <<>>
        ELSE SubSeq(s, CHOOSE i \in keep : \A j \in keep : i <= j,
                       CHOOSE i \in keep : \A j \in keep : j <= i)

\* (mutant) str.replace("’", "'", 1): the first occurrence only
ReplaceCurly_first(s) ==
    LET at == { i \in 1..Len(s) : s[i] = CurlyApostrophe }
    IN  [i \in 1..Len(s) |->
            IF i \in at /\ (\A j \in at : i <= j) THEN Apostrophe ELSE s[i]]

\* str.replace("’", "'")
ReplaceCurly(s) == [i \in 1..Len(s) |-> IF s[i] = CurlyApostrophe THEN Apostrophe ELSE s[i]]

\* str.lower(), on the code points up to U+0153 that have a lower case
LowerChar(c) ==
    IF c \in (65..90) \cup (192..214) \cup (216..222) THEN c + 32
    ELSE IF c = 338 THEN 339
    ELSE c

Lower(s) == [i \in 1..Len(s) |-> LowerChar(s[i])]

\* (mutant) normalize without the apostrophe replacement
normalize_strip_only(s) == Strip(s)

normalize(s) == ReplaceCurly(Strip(s))

\* WORD_TOKEN.match(ln): ^ one start character, then rest characters, then $
\* ($ also matches before a final \n)
WORD_TOKEN_match(ln) ==
    /\ Len(ln) >= 1
    /\ ln[1] \in TokenStart
    /\ \E end \in {Len(ln), Len(ln) - 1} :
          /\ end >= 1
          /\ \A i \in 2..end : ln[i] \in TokenRest
          /\ end = Len(ln) - 1 => ln[Len(ln)] = LineFeed

\* lines 21-24: the test a stripped, normalized line passes to be kept
Accepts(ln) == Lower(ln) = DE_LA \/ WORD_TOKEN_match(ln)

\* lines 17-24: the list out
RECURSIVE Collect(_, _, _)
Collect(lines, i, out) ==
    IF i > Len(lines) THEN out
    ELSE LET l == Strip(lines[i]) IN
         IF l = <<>> THEN Collect(lines, i + 1, out)
         ELSE LET ln == normalize(l) IN
              IF Accepts(ln) THEN Collect(lines, i + 1, Append(out, ln))
              ELSE Collect(lines, i + 1, out)

\* (mutant) de-duplication on the lower-cased token
RECURSIVE DedupLower(_, _, _, _)
DedupLower(out, i, seen, acc) ==
    IF i > Len(out) THEN acc
    ELSE IF Lower(out[i]) \notin seen
    THEN DedupLower(out, i + 1, seen \cup {Lower(out[i])}, Append(acc, out[i]))
    ELSE DedupLower(out, i + 1, seen, acc)

\* lines 26-29: de-dup within the call while preserving order
RECURSIVE Dedup(_, _, _, _)
Dedup(out, i, seen, acc) ==
    IF i > Len(out) THEN acc
    ELSE IF out[i] \notin seen
    THEN Dedup(out, i + 1, seen \cup {out[i]}, Append(acc, out[i]))
    ELSE Dedup(out, i + 1, seen, acc)

extract_words(text) == Dedup(Collect(SplitLines(text), 1, <<>>), 1, {}, <<>>)


\* ---- the inputs of extract_words
\* Fragments of model output; a text is a concatenation of up to MaxPieces of them.
Pieces == {
    <<99, 104, 97, 116, 10>>,        \* chat\n
    <<67, 104, 97, 116, 10>>,        \* Chat\n
    <<108, 8217>>,                   \* l’  (curly apostrophe)
    <<108, 39>>,                     \* l'
    <<45, 233, 10>>,                 \* -é\n
    <<100, 101, 32, 108, 97>>,       \* de la
    <<68, 69, 32, 76, 65, 13, 10>>,  \* DE LA\r\n
    <<49, 46, 32>>,                  \* "1. "
    <<32, 10>>                       \* a space and \n
}

RECURSIVE Texts(_)
Texts(n) ==
    IF n = 0 THEN {<<>>}
    ELSE LET shorter == Texts(n - 1)
         IN  shorter \cup { t \o p : t \in shorter, p \in Pieces }

\* the example of the specification: "chat\nCHAT\n1. chien\nde la\nbonjour!"
ExampleText ==
    <<99, 104, 97, 116, 10, 67, 72, 65, 84, 10, 49, 46, 32, 99, 104, 105, 101, 110, 10,
      100, 101, 32, 108, 97, 10, 98, 111, 110, 106, 111, 117, 114, 33>>

RawInputs == Texts(MaxPieces) \cup {ExampleText}

\* res before extract_words has returned: no list of tokens holds an empty token
NotCalled == <<<<>>>>

ExtInit == raw \in RawInputs /\ res = NotCalled /\ first_res = NotCalled

ExtractWords ==
    /\ res = NotCalled
    /\ res' = extract_words(raw)
    /\ UNCHANGED <<raw, first_res>>

\* "\n".join(ws)
RECURSIVE JoinLines(_)
JoinLines(ws) ==
    IF ws = <<>> THEN <<>>
    ELSE IF Len(ws) = 1 THEN ws[1]
    ELSE ws[1] \o <<LineFeed>> \o JoinLines(Tail(ws))

\* extract_words called on the newline-joined list it returned
ExtractWordsAgain ==
    /\ res # NotCalled
    /\ first_res = NotCalled
    /\ first_res' = res
    /\ raw' = JoinLines(res)
    /\ res' = extract_words(JoinLines(res))

\* ------------------------------------------------- generate_words.py: main
\* What call_ollama returns when it does not raise: a few model answers.
WordResponses == {
    \* "chat\nChat\nété\n1. chien": three tokens and a numbered line
    <<99, 104, 97, 116, 10, 67, 104, 97, 116, 10, 233, 116, 233, 10,
      49, 46, 32, 99, 104, 105, 101, 110>>,
    \* "Chat\nl’\nde la\nun": four tokens, the first of them in the answer above
    <<67, 104, 97, 116, 10, 108, 8217, 10, 100, 101, 32, 108, 97, 10, 117, 110>>,
    \* "été\n été \n": one token, twice
    <<233, 116, 233, 10, 32, 233, 116, 233, 32, 10>>,
    \* "1. chien!": no token
    <<49, 46, 32, 99, 104, 105, 101, 110, 33>>
}

\* lines 101-104: a new batch
NewBatch ==
    /\ pc = "while_true"
    /\ batch_counter < MaxBatches
    /\ batch_counter' = batch_counter + 1
    /\ current_batch' = <<>>
    /\ calls' = 0
    /\ got_log' = <<>>
    /\ failed_calls' = 0
    /\ pc' = "while_inner"
    /\ UNCHANGED <<batch_size, got, got_idx, added, batch_files>>

\* (mutant) the cap counts only the calls that returned
InnerLoopRuns_returned_only ==
    Len(current_batch) < batch_size /\ calls - failed_calls < MaxCallsPerBatch

\* line 105: the test of the inner loop
InnerLoopRuns == Len(current_batch) < batch_size /\ calls < MaxCallsPerBatch

\* lines 105-113: a call that raises is logged and the loop continues
CallFails ==
    /\ pc = "while_inner"
    /\ InnerLoopRuns
    /\ calls' = calls + 1
    /\ failed_calls' = failed_calls + 1
    /\ UNCHANGED <<pc, batch_size, batch_counter, current_batch, got, got_idx, added,
                   got_log, batch_files>>

\* lines 105-116: a call that returns; its answer goes through extract_words
CallReturns(resp) ==
    /\ pc = "while_inner"
    /\ InnerLoopRuns
    /\ calls' = calls + 1
    /\ got' = extract_words(resp)
    /\ got_log' = got_log \o extract_words(resp)
    /\ added' = 0
    /\ got_idx' = 1
    /\ pc' = "for_got"
    /\ UNCHANGED <<batch_size, batch_counter, current_batch, failed_calls, batch_files>>

\* line 105: the inner loop ends
InnerLoopEnds ==
    /\ pc = "while_inner"
    /\ ~InnerLoopRuns
    /\ pc' = "save"
    /\ UNCHANGED <<batch_size, batch_counter, current_batch, calls, got, got_idx, added,
                   got_log, failed_calls, batch_files>>

\* (mutant) line 118 without the membership test
IsNewToken_always(w, batch) == TRUE

\* line 118: keep uniqueness within the batch
IsNewToken(w, batch) == \A i \in 1..Len(batch) : batch[i] # w

\* (mutant) line 122 with > for >=
BatchFull_off_by_one(batch, size) == Len(batch) > size

\* line 122: the batch has reached its size
BatchFull(batch, size) == Len(batch) >= size

\* lines 117-123: one iteration of the for loop over got
ForGot ==
    /\ pc = "for_got"
    /\ got_idx <= Len(got)
    /\ LET w == got[got_idx] IN
       IF IsNewToken(w, current_batch)
       THEN /\ current_batch' = Append(current_batch, w)
            /\ added' = added + 1
            /\ IF BatchFull(current_batch', batch_size)
               THEN pc' = "after_for" /\ UNCHANGED got_idx
               ELSE got_idx' = got_idx + 1 /\ UNCHANGED pc
       ELSE /\ got_idx' = got_idx + 1
            /\ UNCHANGED <<pc, current_batch, added>>
    /\ UNCHANGED <<batch_size, batch_counter, calls, got, got_log, failed_calls, batch_files>>

\* line 117: got is exhausted
ForGotEnds ==
    /\ pc = "for_got"
    /\ got_idx > Len(got)
    /\ pc' = "after_for"
    /\ UNCHANGED <<batch_size, batch_counter, current_batch, calls, got, got_idx, added,
                   got_log, failed_calls, batch_files>>

\* lines 125-128: the report of the call, and a pause when it added nothing
AfterFor ==
    /\ pc = "after_for"
    /\ pc' = "while_inner"
    /\ UNCHANGED <<batch_size, batch_counter, current_batch, calls, got, got_idx, added,
                   got_log, failed_calls, batch_files>>

\* save_batch: the file holds the words, one on a line
save_batch(ws) == Append(batch_files, ws)

\* (mutant) line 130 without the test: every batch is saved
HasWords_always(batch) == TRUE

\* line 130: if current_batch
HasWords(batch) == batch # <<>>

\* lines 130-133: a batch that is not empty is written to a file
SaveBatch ==
    /\ pc = "save"
    /\ HasWords(current_batch)
    /\ batch_files' = save_batch(current_batch)
    /\ pc' = "sleep_between_batches"
    /\ UNCHANGED <<batch_size, batch_counter, current_batch, calls, got, got_idx, added,
                   got_log, failed_calls>>

\* lines 134-136: nothing collected, back off
BackOff ==
    /\ pc = "save"
    /\ ~HasWords(current_batch)
    /\ pc' = "sleep_between_batches"
    /\ UNCHANGED <<batch_size, batch_counter, current_batch, calls, got, got_idx, added,
                   got_log, failed_calls, batch_files>>

\* line 138
SleepBetweenBatches ==
    /\ pc = "sleep_between_batches"
    /\ pc' = "while_true"
    /\ UNCHANGED <<batch_size, batch_counter, current_batch, calls, got, got_idx, added,
                   got_log, failed_calls, batch_files>>

\* (mutant) a handler that saves what the batch in progress holds
OnInterrupt_save(written, batch) == IF batch = <<>> THEN written ELSE Append(written, batch)

\* lines 140-141: the handler prints a message; the batch files stay as they are
OnInterrupt(written, batch) == written

\* lines 140-141: Ctrl+C anywhere in the loop ends main
KeyboardInterrupt ==
    /\ pc \notin {"idle", "stopped"}
    /\ pc' = "stopped"
    /\ batch_files' = OnInterrupt(batch_files, current_batch)
    /\ UNCHANGED <<batch_size, batch_counter, current_batch, calls, got, got_idx, added,
                   got_log, failed_calls>>

\* lines 91-99: main before its first batch
WordInit ==
    /\ pc = "while_true"
    /\ batch_size \in 0..MaxBatchSize
    /\ batch_counter = 0
    /\ current_batch = <<>>
    /\ calls = 0
    /\ got = <<>>
    /\ got_idx = 0
    /\ added = 0
    /\ got_log = <<>>
    /\ failed_calls = 0
    /\ batch_files = <<>>

\* ------------------------------------------- generate_sentences.py: the files
RETRIES == 3
WORDS_PER_DOC == 10

\* The paths glob gives for input_dir "d": an ordinary name, and a name that
\* holds a line feed (any character but "/" and NUL may be in a file name).
PathA == <<100, 47, 97, 46, 116, 120, 116>>             \* d/a.txt
PathB == <<100, 47, 98, 10, 99, 46, 116, 120, 116>>     \* d/b\nc.txt
Paths == {PathA, PathB}

\* read_words gives the stripped, non-blank lines of a file; a word is modelled
\* by its position in that list.
WordList(n) == [i \in 1..n |-> i]

\* the sizes of input files: none, one word, a full document, one word more,
\* and the largest
FileSizes == {0, 1, WORDS_PER_DOC, WORDS_PER_DOC + 1, MaxWords}

RECURSIVE TotalWords(_, _)
TotalWords(dir, paths) ==
    IF paths = {} THEN 0
    ELSE LET p == CHOOSE q \in paths : TRUE
         IN  Len(dir[p]) + TotalWords(dir, paths \ {p})

\* the contents of input_dir the model starts from: no file, one file or two,
\* of which at most one holds more than one word
InputDirs ==
    { dir \in UNION { [ps -> { WordList(n) : n \in FileSizes }] : ps \in SUBSET Paths } :
        /\ TotalWords(dir, DOMAIN dir) <= MaxWords
        /\ Cardinality({ p \in DOMAIN dir : Len(dir[p]) > 1 }) <= 1 }

\* the order of str: by code point, a proper prefix first
RECURSIVE StrLess(_, _)
StrLess(a, b) ==
    IF a = <<>> THEN b # <<>>
    ELSE IF b = <<>> THEN FALSE
    ELSE IF a[1] # b[1] THEN a[1] < b[1]
    ELSE StrLess(Tail(a), Tail(b))

\* sorted(glob.glob(...)), line 188
RECURSIVE Sorted(_)
Sorted(paths) ==
    IF paths = {} THEN <<>>
    ELSE LET first == CHOOSE p \in paths : \A q \in paths \ {p} : StrLess(p, q)
         IN  <<first>> \o Sorted(paths \ {first})

\* iteration over a text file: universal newlines make \r, \n and \r\n line
\* ends; each line read keeps its end as \n
RECURSIVE FileLinesFrom(_, _, _, _)
FileLinesFrom(s, i, cur, acc) ==
    IF i > Len(s)
    THEN IF cur = <<>> THEN acc ELSE Append(acc, cur)
    ELSE IF s[i] = CarriageReturn /\ i < Len(s) /\ s[i + 1] = LineFeed
    THEN FileLinesFrom(s, i + 2, <<>>, Append(acc, Append(cur, LineFeed)))
    ELSE IF s[i] \in {CarriageReturn, LineFeed}
    THEN FileLinesFrom(s, i + 1, <<>>, Append(acc, Append(cur, LineFeed)))
    ELSE FileLinesFrom(s, i + 1, Append(cur, s[i]), acc)

FileLines(s) == FileLinesFrom(s, 1, <<>>, <<>>)

\* load_processed: the stripped lines of the ledger that are not blank
load_processed(text) ==
    { Strip(x) : x \in { l \in Range(FileLines(text)) : Strip(l) # <<>> } }

\* append_processed: item and a line feed at the end of the ledger
append_processed(text, item) == text \o item \o <<LineFeed>>

\* os.path.splitext(os.path.basename(in_file))[0]: what follows the last "/",
\* up to its last "." (a leading "." is part of the name)
Basename(path) ==
    LET slashes == { i \in 1..Len(path) : path[i] = 47 }
        start == IF slashes = {} THEN 1
                 ELSE (CHOOSE i \in slashes : \A j \in slashes : j <= i) + 1
    IN  SubSeq(path, start, Len(path))

SplitextRoot(name) ==
    LET lead == CHOOSE k \in 0..Len(name) :
                    /\ \A i \in 1..k : name[i] = 46
                    /\ k < Len(name) => name[k + 1] # 46
        dots == { i \in (lead + 1)..Len(name) : name[i] = 46 }
    IN  IF dots = {} THEN name
        ELSE SubSeq(name, 1, (CHOOSE i \in dots : \A j \in dots : j <= i) - 1)

Base(in_file) == SplitextRoot(Basename(in_file))

\* f"{b_idx:03d}": the decimal digits, padded with zeros to three at least
RECURSIVE Digits(_)
Digits(n) == IF n < 10 THEN <<n>> ELSE Append(Digits(n \div 10), n % 10)

\* (mutant) the number without padding
Format03d_unpadded(n) == Digits(n)

Format03d(n) ==
    LET d == Digits(n)
    IN  IF Len(d) >= 3 THEN d ELSE [i \in 1..(3 - Len(d)) |-> 0] \o d

\* line 158: the document of sub-batch b_idx of in_file
OutPath(in_file, b) == <<Base(in_file), Format03d(b)>>

\* line 119: [words[i:i + WORDS_PER_DOC] for i in range(0, len(words), WORDS_PER_DOC)]
RECURSIVE BatchesFrom(_, _)
BatchesFrom(ws, i) ==
    IF i >= Len(ws) THEN <<>>
    ELSE <<SubSeq(ws, i + 1, Min(i + WORDS_PER_DOC, Len(ws)))>>
            \o BatchesFrom(ws, i + WORDS_PER_DOC)

Batches(ws) == BatchesFrom(ws, 0)

\* ------------------------------- generate_sentences.py: main and process_file
\* what the placeholders of lines 137 and 150 stand in for, and what
\* post_ollama returns
FromModel == "model"
Placeholder == "placeholder"

\* the state of a process that is not running: its variables are gone
NoProcess ==
    /\ processed' = {}
    /\ files' = <<>>
    /\ f_idx' = 0
    /\ words' = <<>>
    /\ b_idx' = 0
    /\ w_idx' = 0
    /\ attempt' = 0
    /\ meaning_text' = ""
    /\ sentences_text' = ""
    /\ all_content' = <<>>
    /\ step_log' = <<<<>>, <<>>>>

\* lines 177-179: main starts and loads the ledger
MainStarts ==
    /\ spc \in {"not_started", "stopped", "crashed"}
    /\ runs < MaxRuns
    /\ runs' = runs + 1
    /\ processed' = load_processed(ledger_text)
    /\ spc' = "scan"
    /\ UNCHANGED <<input_files, ledger_text, out_dirs, out_docs, files, f_idx, words, b_idx,
                   w_idx, attempt, meaning_text, sentences_text, all_content, step_log, appended>>

\* line 188: a scan of input_dir
Scan ==
    /\ spc = "scan"
    /\ files' = Sorted(DOMAIN input_files)
    /\ f_idx' = 1
    /\ spc' = "for_files"
    /\ UNCHANGED <<input_files, ledger_text, out_dirs, out_docs, processed, words, b_idx,
                   w_idx, attempt, meaning_text, sentences_text, all_content, step_log, appended, runs>>

\* (mutant) line 190 without the test
InProcessed_never(f, done) == FALSE

\* line 190
InProcessed(f, done) == f \in done

\* lines 190-191: a file of the ledger is skipped
SkipProcessed ==
    /\ spc = "for_files"
    /\ f_idx <= Len(files)
    /\ InProcessed(files[f_idx], processed)
    /\ f_idx' = f_idx + 1
    /\ UNCHANGED <<spc, input_files, ledger_text, out_dirs, out_docs, processed, files, words,
                   b_idx, w_idx, attempt, meaning_text, sentences_text, all_content, step_log,
                   appended, runs>>

\* line 203: the for loop is over; sleep, then scan again
EndOfScan ==
    /\ spc = "for_files"
    /\ f_idx > Len(files)
    /\ spc' = "scan"
    /\ UNCHANGED <<input_files, ledger_text, out_dirs, out_docs, processed, files, f_idx,
                   words, b_idx, w_idx, attempt, meaning_text, sentences_text, all_content,
                   step_log, appended, runs>>

\* (mutant) process_file without the test of line 108
NoWords_never(ws) == FALSE

\* line 108: if not words
NoWords(ws) == ws = <<>>

\* lines 193, 107-119: process_file up to its first sub-batch
ProcessFileBegins ==
    /\ spc = "for_files"
    /\ f_idx <= Len(files)
    /\ ~InProcessed(files[f_idx], processed)
    /\ LET in_file == files[f_idx]
           ws == input_files[in_file]
       IN  /\ words' = ws
           /\ IF NoWords(ws)
              THEN /\ spc' = "returned"
                   /\ UNCHANGED <<out_dirs, b_idx, w_idx, attempt>>
              ELSE /\ out_dirs' = out_dirs \cup {Base(in_file)}
                   /\ b_idx' = 1
                   /\ w_idx' = 1
                   /\ attempt' = 1
                   /\ spc' = "meaning"
    /\ meaning_text' = ""
    /\ sentences_text' = ""
    /\ all_content' = <<>>
    /\ step_log' = <<<<>>, <<>>>>
    /\ UNCHANGED <<input_files, ledger_text, out_docs, processed, files, f_idx, appended, runs>>

\* line 107: open or the decoding of the file raises; nothing catches it
ReadWordsRaises ==
    /\ spc = "for_files"
    /\ f_idx <= Len(files)
    /\ ~InProcessed(files[f_idx], processed)
    /\ spc' = "crashed"
    /\ NoProcess
    /\ UNCHANGED <<input_files, ledger_text, out_dirs, out_docs, appended, runs>>

\* the position in words of the word the loops of lines 120 and 122 are at
WordIndex == (b_idx - 1) * WORDS_PER_DOC + w_idx

\* (mutant) a retry loop of RETRIES + 1 attempts
LastAttempt_one_more(a) == a >= RETRIES + 1

\* range(1, RETRIES+1): attempt a is the last one
LastAttempt(a) == a >= RETRIES

\* lines 127-137, one attempt: post_ollama returns and the loop breaks
MeaningReturns ==
    /\ spc = "meaning"
    /\ meaning_text' = FromModel
    /\ step_log' = <<Append(step_log[1], "returned"), step_log[2]>>
    /\ attempt' = 1
    /\ spc' = "sentences"
    /\ UNCHANGED <<input_files, ledger_text, out_dirs, out_docs, processed, files, f_idx,
                   words, b_idx, w_idx, sentences_text, all_content, appended,
                   runs>>

\* lines 127-137, one attempt: post_ollama raises; after the last attempt the
\* placeholder is taken
MeaningRaises ==
    /\ spc = "meaning"
    /\ WordIndex <= MaxFailingWord
    /\ step_log' = <<Append(step_log[1], "raised"), step_log[2]>>
    /\ IF LastAttempt(attempt)
       THEN /\ meaning_text' = Placeholder
            /\ attempt' = 1
            /\ spc' = "sentences"
       ELSE /\ attempt' = attempt + 1
            /\ UNCHANGED <<meaning_text, spc>>
    /\ UNCHANGED <<input_files, ledger_text, out_dirs, out_docs, processed, files, f_idx,
                   words, b_idx, w_idx, sentences_text, all_content, appended, runs>>

\* lines 140-150, one attempt: post_ollama returns and the loop breaks
SentencesReturns ==
    /\ spc = "sentences"
    /\ sentences_text' = FromModel
    /\ step_log' = <<step_log[1], Append(step_log[2], "returned")>>
    /\ spc' = "combine"
    /\ UNCHANGED <<input_files, ledger_text, out_dirs, out_docs, processed, files, f_idx,
                   words, b_idx, w_idx, attempt, meaning_text, all_content, appended, runs>>

\* lines 140-150, one attempt: post_ollama raises; after the last attempt the
\* placeholder is taken
SentencesRaises ==
    /\ spc = "sentences"
    /\ WordIndex <= MaxFailingWord
    /\ step_log' = <<step_log[1], Append(step_log[2], "raised")>>
    /\ IF LastAttempt(attempt)
       THEN /\ sentences_text' = Placeholder
            /\ spc' = "combine"
            /\ UNCHANGED attempt
       ELSE /\ attempt' = attempt + 1
            /\ UNCHANGED <<sentences_text, spc>>
    /\ UNCHANGED <<input_files, ledger_text, out_dirs, out_docs, processed, files, f_idx,
                   words, b_idx, w_idx, meaning_text, all_content, appended, runs>>

\* lines 153-156: the block of the word; then the next word of the sub-batch,
\* or the end of the for loop
Combine ==
    /\ spc = "combine"
    /\ LET batch == Batches(words)[b_idx]
           block == [word |-> batch[w_idx], meaning |-> meaning_text,
                     sentences |-> sentences_text]
       IN  /\ all_content' = Append(all_content, block)
           /\ IF w_idx < Len(batch)
              THEN /\ w_idx' = w_idx + 1
                   /\ spc' = "meaning"
              ELSE /\ spc' = "write_docx"
                   /\ UNCHANGED w_idx
    /\ attempt' = 1
    /\ meaning_text' = ""
    /\ sentences_text' = ""
    /\ step_log' = <<<<>>, <<>>>>
    /\ UNCHANGED <<input_files, ledger_text, out_dirs, out_docs, processed, files, f_idx,
                   words, b_idx, appended, runs>>

\* (mutant) process_file returns after its first document
IsLastBatch_always(b, ws) == TRUE

\* line 120: sub-batch b is the last one of the for loop
IsLastBatch(b, ws) == b >= Len(Batches(ws))

\* lines 158-163: the document is saved; then the next sub-batch, or return True
WriteDocx ==
    /\ spc = "write_docx"
    /\ LET out_path == OutPath(files[f_idx], b_idx)
       IN  out_docs' = [p \in DOMAIN out_docs \cup {out_path} |->
                           IF p = out_path THEN all_content ELSE out_docs[p]]
    /\ IF IsLastBatch(b_idx, words)
       THEN /\ spc' = "returned"
            /\ UNCHANGED <<b_idx, w_idx>>
       ELSE /\ b_idx' = b_idx + 1
            /\ w_idx' = 1
            /\ spc' = "meaning"
    /\ all_content' = <<>>
    /\ UNCHANGED <<input_files, ledger_text, out_dirs, processed, files, f_idx, words,
                   attempt, meaning_text, sentences_text, step_log, appended,
                   runs>>

\* line 159: doc.save raises; nothing catches it
WriteDocxRaises ==
    /\ spc = "write_docx"
    /\ spc' = "crashed"
    /\ NoProcess
    /\ UNCHANGED <<input_files, ledger_text, out_dirs, out_docs, appended, runs>>

\* (mutant) process_file returns False for a file that got a placeholder
ReturnValue_no_placeholder(in_file, docs) ==
    \A d \in DOMAIN docs :
        d[1] = Base(in_file) =>
            \A i \in 1..Len(docs[d]) :
                docs[d][i].meaning = FromModel /\ docs[d][i].sentences = FromModel

\* lines 110 and 163: what process_file returns
ReturnValue(in_file, docs) == TRUE

\* lines 200-202: if ok, the path goes to the ledger file and to the set
MarkProcessed ==
    /\ spc = "returned"
    /\ IF ReturnValue(files[f_idx], out_docs)
       THEN /\ ledger_text' = append_processed(ledger_text, files[f_idx])
            /\ appended' = Append(appended, files[f_idx])
            /\ processed' = processed \cup {files[f_idx]}
       ELSE UNCHANGED <<ledger_text, appended, processed>>
    /\ f_idx' = f_idx + 1
    /\ spc' = "for_files"
    /\ UNCHANGED <<input_files, out_dirs, out_docs, files, words, b_idx, w_idx, attempt,
                   meaning_text, sentences_text, all_content, step_log, runs>>

\* line 201: open of the ledger raises; nothing catches it
AppendProcessedRaises ==
    /\ spc = "returned"
    /\ spc' = "crashed"
    /\ NoProcess
    /\ UNCHANGED <<input_files, ledger_text, out_dirs, out_docs, appended, runs>>

\* lines 204-205: Ctrl+C anywhere in the loop ends main
SentKeyboardInterrupt ==
    /\ spc \in {"scan", "for_files", "meaning", "sentences", "combine", "write_docx",
                "returned"}
    /\ spc' = "stopped"
    /\ NoProcess
    /\ UNCHANGED <<input_files, ledger_text, out_dirs, out_docs, appended, runs>>

\* before main is started: input_dir holds its files, output_dir is empty
SentInit ==
    /\ spc = "not_started"
    /\ input_files \in InputDirs
    /\ ledger_text = <<>>
    /\ out_dirs = {}
    /\ out_docs = <<>>
    /\ processed = {}
    /\ files = <<>>
    /\ f_idx = 0
    /\ words = <<>>
    /\ b_idx = 0
    /\ w_idx = 0
    /\ attempt = 0
    /\ meaning_text = ""
    /\ sentences_text = ""
    /\ all_content = <<>>
    /\ step_log = <<<<>>, <<>>>>
    /\ appended = <<>>
    /\ runs = 0

SentIdle ==
    /\ spc = "idle"
    /\ input_files = <<>>
    /\ ledger_text = <<>>
    /\ out_dirs = {}
    /\ out_docs = <<>>
    /\ processed = {}
    /\ files = <<>>
    /\ f_idx = 0
    /\ words = <<>>
    /\ b_idx = 0
    /\ w_idx = 0
    /\ attempt = 0
    /\ meaning_text = ""
    /\ sentences_text = ""
    /\ all_content = <<>>
    /\ step_log = <<<<>>, <<>>>>
    /\ appended = <<>>
    /\ runs = 0

SupInit ==
    /\ current_job = NoJob
    /\ procs = <<>>
    /\ now = 0
    /\ log_dir_exists = FALSE
    /\ log_files = <<>>
    /\ jobs_created = <<>>
    /\ abandoned = {}
    /\ last = NoCall

ExtIdle == raw = <<>> /\ res = NotCalled /\ first_res = NotCalled
WordIdle ==
    /\ pc = "idle" /\ batch_size = 0 /\ batch_counter = 0 /\ current_batch = <<>>
    /\ calls = 0 /\ got = <<>> /\ got_idx = 0 /\ added = 0 /\ got_log = <<>>
    /\ failed_calls = 0 /\ batch_files = <<>>

Init == SupInit /\ ExtIdle /\ WordIdle /\ SentIdle

\* The calls the web layer makes (main.py: run_job, stop_job, current_log),
\* and the steps of the supervisor's environment.
StartJob ==
    (\E jt \in JobTypes, t \in now..MaxTicks : start_job(jt, t)) /\ UNCHANGED <<extVars, wordVars, sentVars>>
StopJob == (\E o \in StopOutcomes : stop_current_job(o)) /\ UNCHANGED <<extVars, wordVars, sentVars>>
GetCurrentJob == get_current_job /\ UNCHANGED <<extVars, wordVars, sentVars>>
GetLogTail == (\E n \in 0..MaxTail : get_log_tail(n)) /\ UNCHANGED <<extVars, wordVars, sentVars>>
ChildExits == (\E p \in DOMAIN procs : ChildExit(p)) /\ UNCHANGED <<extVars, wordVars, sentVars>>
ChildWrites == (\E p \in DOMAIN procs : ChildWrite(p)) /\ UNCHANGED <<extVars, wordVars, sentVars>>
LogFileRemoved == LogRemoved /\ UNCHANGED <<extVars, wordVars, sentVars>>

Next ==
    \/ StartJob
    \/ StopJob
    \/ GetCurrentJob
    \/ GetLogTail
    \/ ChildExits
    \/ ChildWrites
    \/ LogFileRemoved

Spec == Init /\ [][Next]_vars

\* extract_words applied to one text
InitExtract == SupInit /\ ExtInit /\ WordIdle /\ SentIdle
CallExtractWords == ExtractWords /\ UNCHANGED <<supVars, wordVars, sentVars>>
CallExtractWordsAgain == ExtractWordsAgain /\ UNCHANGED <<supVars, wordVars, sentVars>>
NextExtract == CallExtractWords \/ CallExtractWordsAgain
SpecExtract == InitExtract /\ [][NextExtract]_vars

\* the word generator: main of generate_words.py
InitWords == SupInit /\ ExtIdle /\ WordInit /\ SentIdle
StartBatch == NewBatch /\ UNCHANGED <<supVars, extVars, sentVars>>
ModelCallFails == CallFails /\ UNCHANGED <<supVars, extVars, sentVars>>
ModelCallReturns == (\E resp \in WordResponses : CallReturns(resp)) /\ UNCHANGED <<supVars, extVars, sentVars>>
EndInnerLoop == InnerLoopEnds /\ UNCHANGED <<supVars, extVars, sentVars>>
AddToken == ForGot /\ UNCHANGED <<supVars, extVars, sentVars>>
EndForLoop == ForGotEnds /\ UNCHANGED <<supVars, extVars, sentVars>>
ReportCall == AfterFor /\ UNCHANGED <<supVars, extVars, sentVars>>
WriteBatch == SaveBatch /\ UNCHANGED <<supVars, extVars, sentVars>>
EmptyBatchBackOff == BackOff /\ UNCHANGED <<supVars, extVars, sentVars>>
PauseBetweenBatches == SleepBetweenBatches /\ UNCHANGED <<supVars, extVars, sentVars>>
Interrupted == KeyboardInterrupt /\ UNCHANGED <<supVars, extVars, sentVars>>

NextWords ==
    \/ StartBatch
    \/ ModelCallFails
    \/ ModelCallReturns
    \/ EndInnerLoop
    \/ AddToken
    \/ EndForLoop
    \/ ReportCall
    \/ WriteBatch
    \/ EmptyBatchBackOff
    \/ PauseBetweenBatches
    \/ Interrupted

SpecWords == InitWords /\ [][NextWords]_vars

\* main is one sequential process: unless it is interrupted it takes its next
\* step (a model call returns or raises within its timeout, a sleep ends)
WordsStep ==
    \/ StartBatch
    \/ ModelCallFails
    \/ ModelCallReturns
    \/ EndInnerLoop
    \/ AddToken
    \/ EndForLoop
    \/ ReportCall
    \/ WriteBatch
    \/ EmptyBatchBackOff
    \/ PauseBetweenBatches

\* termination of the inner loop is checked on the runs with a small batch size
InitWordsFair == InitWords /\ batch_size <= MaxFairBatchSize
SpecWordsFair == InitWordsFair /\ [][NextWords]_vars /\ WF_vars(WordsStep)

\* the sentence generator: main of generate_sentences.py, started and started again
InitSentences == SupInit /\ ExtIdle /\ WordIdle /\ SentInit
StartMain == MainStarts /\ UNCHANGED <<supVars, extVars, wordVars>>
ScanInputDir == Scan /\ UNCHANGED <<supVars, extVars, wordVars>>
SkipFile == SkipProcessed /\ UNCHANGED <<supVars, extVars, wordVars>>
FinishScan == EndOfScan /\ UNCHANGED <<supVars, extVars, wordVars>>
BeginFile == ProcessFileBegins /\ UNCHANGED <<supVars, extVars, wordVars>>
ReadFails == ReadWordsRaises /\ UNCHANGED <<supVars, extVars, wordVars>>
MeaningCallReturns == MeaningReturns /\ UNCHANGED <<supVars, extVars, wordVars>>
MeaningCallRaises == MeaningRaises /\ UNCHANGED <<supVars, extVars, wordVars>>
SentencesCallReturns == SentencesReturns /\ UNCHANGED <<supVars, extVars, wordVars>>
SentencesCallRaises == SentencesRaises /\ UNCHANGED <<supVars, extVars, wordVars>>
CombineBlock == Combine /\ UNCHANGED <<supVars, extVars, wordVars>>
SaveDocument == WriteDocx /\ UNCHANGED <<supVars, extVars, wordVars>>
SaveDocumentFails == WriteDocxRaises /\ UNCHANGED <<supVars, extVars, wordVars>>
RecordFile == MarkProcessed /\ UNCHANGED <<supVars, extVars, wordVars>>
RecordFileFails == AppendProcessedRaises /\ UNCHANGED <<supVars, extVars, wordVars>>
SentInterrupted == SentKeyboardInterrupt /\ UNCHANGED <<supVars, extVars, wordVars>>

NextSentences ==
    \/ StartMain
    \/ ScanInputDir
    \/ SkipFile
    \/ FinishScan
    \/ BeginFile
    \/ ReadFails
    \/ MeaningCallReturns
    \/ MeaningCallRaises
    \/ SentencesCallReturns
    \/ SentencesCallRaises
    \/ CombineBlock
    \/ SaveDocument
    \/ SaveDocumentFails
    \/ RecordFile
    \/ RecordFileFails
    \/ SentInterrupted

SpecSentences == InitSentences /\ [][NextSentences]_vars

\* main is one sequential process: while it runs it takes its next step (a
\* model call returns or raises within its timeout, a sleep ends); Ctrl+C and
\* starting main again are up to the user
SentStep ==
    \/ ScanInputDir
    \/ SkipFile
    \/ FinishScan
    \/ BeginFile
    \/ ReadFails
    \/ MeaningCallReturns
    \/ MeaningCallRaises
    \/ SentencesCallReturns
    \/ SentencesCallRaises
    \/ CombineBlock
    \/ SaveDocument
    \/ SaveDocumentFails
    \/ RecordFile
    \/ RecordFileFails

\* progress of process_file is checked on the input directories of one file
\* at most, of few words
InitSentencesFair ==
    /\ InitSentences
    /\ Cardinality(DOMAIN input_files) <= 1
    /\ TotalWords(input_files, DOMAIN input_files) <= MaxFairWords
SpecSentencesFair == InitSentencesFair /\ [][NextSentences]_vars /\ WF_vars(SentStep)

\* ------------------------------------------------------------------------
\* Properties of the supervisor (job_manager.py)
\* ------------------------------------------------------------------------
LiveChildren == { p \in DOMAIN procs : procs[p].state = "running" }

\* C1 (as stated): after any sequence of start, stop and child-exit events,
\* including a stop whose wait timed out or raised, at most one child process
\* is alive.
C1_AtMostOneLiveChild == Cardinality(LiveChildren) <= 1

\* C1 (amended): a child is launched only when the current Job, if any, has
\* exited; so every live child is the current Job's process or one that a stop
\* cleared from the slot while it was still alive.
C1_LiveChildIsCurrentOrAbandoned ==
    /\ \A p \in LiveChildren : p = current_job.process \/ p \in abandoned
    /\ (last.op = "start" /\ last.launched # 0 /\ last.pre # NoJob)
          => procs[last.pre.process].state = "exited"

C1_Witness ==
    /\ current_job # NoJob /\ PollIsNone(current_job)
    /\ \E p \in abandoned : p # current_job.process /\ procs[p].state = "running"

\* C2: start called while the current Job's process has not exited raises the
\* already-running error for every job type, launches nothing and leaves the
\* current Job unchanged.
C2_StartWhileRunningFails ==
    [][\A jt \in JobTypes, t \in 0..MaxTicks :
         (/\ current_job # NoJob
          /\ procs[current_job.process].state = "running"
          /\ start_job(jt, t))
         => /\ last'.raised = "RuntimeError"
            /\ last'.launched = 0
            /\ procs' = procs
            /\ log_files' = log_files
            /\ jobs_created' = jobs_created
            /\ current_job' = current_job]_vars

C2_Witness ==
    /\ last.op = "start" /\ last.raised = "RuntimeError" /\ last.job_type = "other"
    /\ current_job = last.pre /\ current_job # NoJob

\* C3 (as stated): a start that succeeds replaces the current Job by a new Job
\* whose id differs from the id of every Job created before it.
C3_NewJobIdDistinct ==
    (last.op = "start" /\ last.raised = "")
        => /\ current_job = last.ret_job
           /\ \A i \in 1..(Len(jobs_created) - 1) : jobs_created[i] # last.ret_job.id

\* C4: stop returns without raising and leaves no current Job, whatever
\* terminate and wait did.
C4_StopClears ==
    last.op = "stop" => (last.raised = "" /\ current_job = NoJob)

C4_Witness ==
    /\ last.op = "stop" /\ last.outcome = "timeout" /\ last.pre # NoJob
    /\ procs[last.pre.process].state = "running"

\* C5: stop with no current Job does not raise, sends no termination request
\* and changes nothing of the supervisor's state.
C5_StopNoJobIsNoOp ==
    [][\A o \in StopOutcomes :
         (current_job = NoJob /\ stop_current_job(o))
         => /\ last'.raised = ""
            /\ ~last'.terminated
            /\ UNCHANGED <<current_job, procs, log_files, jobs_created, abandoned>>]_vars

C5_Witness ==
    /\ last.op = "stop" /\ last.pre = NoJob /\ last.raised = "" /\ current_job = NoJob
    /\ LiveChildren # {}

\* C6: start with an unknown job type while no job is running raises the
\* unknown-job-type error, launches no child, creates no Job and leaves the
\* slot as it was.
C6_UnknownJobTypeFails ==
    [][\A jt \in JobTypes \ KnownJobTypes, t \in 0..MaxTicks :
         (/\ current_job = NoJob \/ procs[current_job.process].state = "exited"
          /\ start_job(jt, t))
         => /\ last'.raised = "ValueError"
            /\ last'.launched = 0
            /\ procs' = procs
            /\ log_files' = log_files
            /\ jobs_created' = jobs_created
            /\ current_job' = current_job]_vars

C6_Witness ==
    /\ last.op = "start" /\ last.raised = "ValueError"
    /\ last.pre # NoJob /\ current_job = last.pre

\* The last k lines of a file.
LastLines(lines, k) == SubSeq(lines, Len(lines) - k + 1, Len(lines))

\* C7 (as stated): for every max_lines >= 0, tail returns exactly the last
\* min(max_lines, n) lines of the current Job's log of n lines, and nothing
\* when there is no current Job or no log file.
C7_TailIsLastLines ==
    \A n \in 0..MaxTail :
        LogTail(current_job, log_files, n) =
            IF current_job = NoJob \/ current_job.log_path \notin DOMAIN log_files
            THEN <<>>
            ELSE LastLines(log_files[current_job.log_path],
                           Min(n, Len(log_files[current_job.log_path])))

\* ------------------------------------------------------------------------
\* Properties of extract_words (generate_words.py)
\* ------------------------------------------------------------------------
\* the trimmed, apostrophe-normalized, non-empty lines of the input, in order
NormalizedLines ==
    LET lines == SplitLines(raw)
        all == [i \in 1..Len(lines) |-> ReplaceCurly(Strip(lines[i]))]
    IN  SelectSeq(all, LAMBDA t : t # <<>>)

\* the single-token grammar: a letter, then letters, apostrophes and hyphens
IsLetter(c) ==
    \/ c \in 65..90 \/ c \in 97..122 \/ c \in 192..214 \/ c \in 216..246 \/ c \in 248..255
    \/ c \in {199, 231, 338, 339}
SingleToken(t) ==
    /\ t # <<>>
    /\ IsLetter(t[1])
    /\ \A i \in 2..Len(t) : IsLetter(t[i]) \/ t[i] \in {39, 8217, 45}

FirstIndex(seq, x) == CHOOSE i \in 1..Len(seq) : seq[i] = x /\ \A j \in 1..(i - 1) : seq[j] # x

\* C10: a trimmed, normalized, non-empty line is in the output iff it matches
\* the single-token grammar or equals "de la" ignoring case; the output holds
\* no token twice and keeps the tokens in the order of their first occurrence.
C10_ExtractWords ==
    res # NotCalled =>
        /\ \A i \in 1..Len(NormalizedLines) :
              LET t == NormalizedLines[i] IN
              (t \in Range(res)) <=> (SingleToken(t) \/ Lower(t) = DE_LA)
        /\ \A i, j \in 1..Len(res) : i # j => res[i] # res[j]
        /\ \A i \in 1..Len(res) : res[i] \in Range(NormalizedLines)
        /\ \A i, j \in 1..Len(res) :
              i < j => FirstIndex(NormalizedLines, res[i]) < FirstIndex(NormalizedLines, res[j])

\* two accepted lines that differ only in case, a rejected line, and a repeated line
C10_Witness ==
    /\ res # NotCalled
    /\ Len(res) >= 2
    /\ \E i, j \in 1..Len(res) : i # j /\ Lower(res[i]) = Lower(res[j])
    /\ Len(NormalizedLines) > Len(res)
    /\ \E i \in 1..Len(NormalizedLines) : NormalizedLines[i] \notin Range(res)
    /\ \E i, j \in 1..Len(NormalizedLines) : i # j /\ NormalizedLines[i] = NormalizedLines[j]

\* C11 (as stated): tokens that differ only in letter case are duplicates and
\* only the first seen is kept; on the lines chat, CHAT, "1. chien", "de la",
\* "bonjour!" the result is exactly ["chat", "de la"].
C11_CaseInsensitiveDedup ==
    res # NotCalled =>
        /\ \A i, j \in 1..Len(res) : i # j => Lower(res[i]) # Lower(res[j])
        /\ raw = ExampleText => res = <<<<99, 104, 97, 116>>, DE_LA>>

\* ------------------------------------------------------------------------
\* Properties of the word batch loop (generate_words.py, main)
\* ------------------------------------------------------------------------
\* no token twice, only tokens of the lexical grammar or the article phrase,
\* and no more tokens than the target size
BatchOK(batch) ==
    /\ \A i, j \in 1..Len(batch) : i # j => batch[i] # batch[j]
    /\ \A i \in 1..Len(batch) : SingleToken(batch[i]) \/ Lower(batch[i]) = DE_LA
    /\ Len(batch) <= batch_size

\* C8: at every point of the batch loop the current batch, and every batch
\* file written, holds no duplicate token, only tokens the lexical grammar (or
\* the article phrase) accepts, and at most B tokens.
C8_BatchInvariant ==
    /\ BatchOK(current_batch)
    /\ \A k \in 1..Len(batch_files) : BatchOK(batch_files[k])

\* a full batch file, collected from answers that repeated tokens
C8_Witness ==
    /\ batch_files # <<>>
    /\ batch_size >= 2
    /\ Len(batch_files[Len(batch_files)]) = batch_size
    /\ \E i, j \in 1..Len(got_log) : i # j /\ got_log[i] = got_log[j]

\* the first n distinct elements of a sequence, in the order of their first occurrence
RECURSIVE FirstDistinctFrom(_, _, _, _)
FirstDistinctFrom(seq, i, n, acc) ==
    IF i > Len(seq) \/ Len(acc) >= n THEN acc
    ELSE IF \E k \in 1..Len(acc) : acc[k] = seq[i]
    THEN FirstDistinctFrom(seq, i + 1, n, acc)
    ELSE FirstDistinctFrom(seq, i + 1, n, Append(acc, seq[i]))

FirstDistinct(seq, n) == FirstDistinctFrom(seq, 1, n, <<>>)

\* C9: after each successful call of a batch, the batch is exactly the first
\* B distinct tokens, in first-seen order, of the concatenation of the token
\* lists extracted so far in that batch, and that is what the batch file
\* holds; once the batch holds B tokens, no further call is issued for it.
C9_FirstDistinctTokens ==
    [][ /\ pc' \in {"while_inner", "save", "sleep_between_batches"}
             => current_batch' = FirstDistinct(got_log', batch_size')
        /\ Len(batch_files') > Len(batch_files)
             => batch_files'[Len(batch_files')] = FirstDistinct(got_log, batch_size)
        /\ (Len(current_batch) >= batch_size /\ pc # "while_true")
             => calls' = calls]_vars

\* B = 5: a call yielding 3 tokens, then one yielding 4 of which 1 is known
\* and 1 is left over, give a batch file of 5 tokens after 2 calls
C9_Witness ==
    /\ batch_size = 5
    /\ calls = 2
    /\ failed_calls = 0
    /\ Len(got_log) = 7
    /\ Cardinality(Range(got_log)) = 6
    /\ batch_files # <<>>
    /\ Len(batch_files[Len(batch_files)]) = 5
    /\ batch_files[Len(batch_files)] = current_batch
    /\ got_idx < Len(got)

\* C16 (as stated): a failed model call does not use up one of the batch's
\* capped calls: while the batch is short of B tokens and fewer than cap calls
\* have returned, the batch may make a further call.
C16_FailedCallIsFree ==
    (/\ pc = "while_inner"
     /\ Len(current_batch) < batch_size
     /\ calls - failed_calls < MaxCallsPerBatch)
        => InnerLoopRuns

\* C16 (amended): a failed call is one of the batch's capped calls like any
\* other: failed and returned calls together never exceed the cap, and a batch
\* that is short of B tokens when its inner loop ends has made cap calls.
C16_FailedCallTakesASlot ==
    /\ failed_calls <= calls
    /\ calls <= MaxCallsPerBatch
    /\ (pc = "save" /\ Len(current_batch) < batch_size) => calls = MaxCallsPerBatch

\* a batch left short because one of its calls failed: the other calls
\* returned tokens, and the cap was reached
C16_Witness ==
    /\ pc = "save"
    /\ failed_calls = 1
    /\ calls = MaxCallsPerBatch
    /\ current_batch # <<>>
    /\ Len(current_batch) < batch_size

\* C17: for any pattern of calls that fail and return, a batch never issues
\* more than cap calls, failed and returned together; its inner loop ends,
\* the save or backoff step follows and the loop is back at the start of a
\* new batch (unless main is interrupted).
C17_InnerLoopTerminates ==
    /\ [](calls <= MaxCallsPerBatch)
    /\ (pc \in {"while_inner", "for_got", "after_for"}) ~> (pc \in {"save", "stopped"})
    /\ (pc = "save") ~> (pc \in {"while_true", "stopped"})

\* a batch whose calls all failed: cap calls, nothing collected, and main is
\* at the start of the next batch
C17_Witness ==
    /\ pc = "while_true"
    /\ batch_counter >= 1
    /\ calls = MaxCallsPerBatch
    /\ failed_calls = MaxCallsPerBatch
    /\ current_batch = <<>>

\* C18: when the inner loop of a batch has ended, a batch file is written iff
\* the batch holds a token; an empty batch writes nothing and backs off; no
\* batch file is empty; either way the loop goes on to a fresh, empty batch.
C18_FileIffBatchNotEmpty ==
    /\ [](\A k \in 1..Len(batch_files) : batch_files[k] # <<>>)
    /\ [][(pc = "save" /\ pc' # "stopped") =>
             /\ pc' = "sleep_between_batches"
             /\ IF current_batch # <<>>
                THEN batch_files' = Append(batch_files, current_batch)
                ELSE batch_files' = batch_files]_vars
    /\ [][(pc = "sleep_between_batches" /\ pc' # "stopped") => pc' = "while_true"]_vars
    /\ [][(pc = "while_true" /\ pc' # "stopped") =>
             /\ pc' = "while_inner"
             /\ current_batch' = <<>>
             /\ calls' = 0
             /\ batch_counter' = batch_counter + 1]_vars

\* an empty batch after cap calls wrote nothing, and the batch after it was
\* written to a file
C18_Witness ==
    /\ batch_counter = 2
    /\ Len(batch_files) = 1
    /\ pc = "sleep_between_batches"
    /\ current_batch = batch_files[1]

\* C19: an interrupt, at whatever point of the loop it arrives, writes no
\* file; every batch file is written with exactly B tokens, or with 1 to B-1
\* tokens once the batch has used up its cap of calls.
C19_NoFileOnInterrupt ==
    /\ [][(pc' = "stopped" /\ pc # "stopped") => batch_files' = batch_files]_vars
    /\ [][batch_files' # batch_files =>
             /\ Len(batch_files') = Len(batch_files) + 1
             /\ LET file == batch_files'[Len(batch_files')]
                IN  \/ Len(file) = batch_size
                    \/ /\ 1 <= Len(file)
                       /\ Len(file) < batch_size
                       /\ calls = MaxCallsPerBatch]_vars

\* main was interrupted in the middle of a batch that held tokens, after an
\* earlier batch was written short of B tokens
C19_Witness ==
    /\ pc = "stopped"
    /\ batch_counter = 2
    /\ current_batch # <<>>
    /\ Len(batch_files) = 1
    /\ Len(batch_files[1]) < batch_size
    /\ batch_files[1] # current_batch

\* ------------------------------------------------------------------------
\* Properties of the sentence generator (generate_sentences.py)
\* ------------------------------------------------------------------------
\* main is running
SentRunning == spc \in {"scan", "for_files", "meaning", "sentences", "combine", "write_docx",
                        "returned"}

\* process_file is working on files[f_idx]
InProcessFile == spc \in {"meaning", "sentences", "combine", "write_docx", "returned"}

\* C12 (as stated): in every run, also one started again with the ledger
\* loaded from disk, a path already recorded in the ledger is never processed
\* again; the ledger only grows (every path recorded so far is in the set a
\* running main holds), and no path is appended to it twice.
C12_LedgerIdempotent ==
    /\ SentRunning => Range(appended) \subseteq processed
    /\ InProcessFile => files[f_idx] \notin Range(appended)
    /\ \A i, j \in 1..Len(appended) : i # j => appended[i] # appended[j]

\* the documents of output_dir that belong to in_file
DocsOf(in_file) == { d \in DOMAIN out_docs : d[1] = Base(in_file) }

\* the words a document covers, in the order of its blocks
WordsOf(doc) == [i \in 1..Len(doc) |-> doc[i].word]

\* the number of a document as three decimal digits
ThreeDigits(b) == <<b \div 100, (b \div 10) % 10, b % 10>>

\* ceil(n / 10)
CeilTenth(n) == IF n % 10 = 0 THEN n \div 10 ELSE n \div 10 + 1

\* the documents of in_file are those of a file of N >= 1 words processed to
\* its end: part001 .. part<ceil(N/10)>, of 10 words each but the last, which
\* holds the rest, the words in the order of the file
AllDocuments(in_file) ==
    LET ws == input_files[in_file]
        N == Len(ws)
        K == CeilTenth(N)
    IN  /\ DocsOf(in_file) = { <<Base(in_file), ThreeDigits(b)>> : b \in 1..K }
        /\ \A b \in 1..K :
              LET doc == out_docs[<<Base(in_file), ThreeDigits(b)>>]
              IN  /\ Len(doc) = IF b < K THEN 10 ELSE N - 10 * (K - 1)
                  /\ WordsOf(doc) = [i \in 1..Len(doc) |-> ws[10 * (b - 1) + i]]

\* C13: when process_file has gone through a file of N >= 1 words, the file
\* has exactly ceil(N/10) documents, numbered part001, part002, ... with three
\* digits; each but the last covers 10 words, the last the remaining
\* N - 10*(ceil(N/10) - 1), in the order of the input.
C13_DocumentsOfFile ==
    (spc = "returned" /\ input_files[files[f_idx]] # <<>>) => AllDocuments(files[f_idx])

\* a file of 23 words has been processed: documents of 10, 10 and 3 words
C13_Witness ==
    /\ spc = "returned"
    /\ Len(input_files[files[f_idx]]) = 23
    /\ Cardinality(DocsOf(files[f_idx])) = 3
    /\ Len(out_docs[<<Base(files[f_idx]), <<0, 0, 3>>>>]) = 3

\* the calls of one retry loop so far: at most three, and none after a call
\* that returned
LoopOK(log) ==
    /\ Len(log) <= 3
    /\ \A i \in 1..(Len(log) - 1) : log[i] = "raised"

\* a retry loop that is over: it ended with a call that returned and its text
\* is the model's, or all three calls raised and its text is the placeholder
StepDone(log, text) ==
    /\ LoopOK(log)
    /\ log # <<>>
    /\ \/ log[Len(log)] = "returned" /\ text = "model"
       \/ Len(log) = 3 /\ log[3] = "raised" /\ text = "placeholder"

\* C14: for every word each of the two steps makes at most 3 model calls and
\* stops at its first success; the sentences step runs whether the meaning
\* step succeeded or not; a step whose 3 calls all raised gets its
\* placeholder, and the word has its block in the document all the same.
C14_IndependentRetries ==
    /\ spc \in {"meaning", "sentences", "combine"} =>
          /\ LoopOK(step_log[1]) /\ LoopOK(step_log[2])
          /\ WordsOf(all_content) = SubSeq(Batches(words)[b_idx], 1, w_idx - 1)
    /\ spc = "meaning" =>
          /\ step_log[2] = <<>>
          /\ Len(step_log[1]) < 3
          /\ \A i \in 1..Len(step_log[1]) : step_log[1][i] = "raised"
    /\ spc = "sentences" =>
          /\ StepDone(step_log[1], meaning_text)
          /\ Len(step_log[2]) < 3
          /\ \A i \in 1..Len(step_log[2]) : step_log[2][i] = "raised"
    /\ spc = "combine" =>
          /\ StepDone(step_log[1], meaning_text)
          /\ StepDone(step_log[2], sentences_text)
    /\ spc = "write_docx" =>
          /\ WordsOf(all_content) = Batches(words)[b_idx]
          /\ \A i \in 1..Len(all_content) :
                /\ all_content[i].meaning \in {"model", "placeholder"}
                /\ all_content[i].sentences \in {"model", "placeholder"}

\* a document of ten words whose first word got both placeholders, each
\* after three calls that raised
C14_Witness ==
    /\ spc = "write_docx"
    /\ Len(all_content) = 10
    /\ all_content[1].meaning = "placeholder"
    /\ all_content[1].sentences = "placeholder"
    /\ all_content[2].meaning = "model"

\* C15 (as stated): no error raised inside the generator loop, a failure while
\* reading an input file or saving a document included, ends the outer loop;
\* main ends only on an interrupt.
C15_OnlyInterruptEndsLoop == spc # "crashed"

\* the path is in the ledger: main holds it, it was appended, or the ledger
\* file has it as a line
InLedger(f) ==
    f \in processed \/ f \in Range(appended) \/ f \in load_processed(ledger_text)

\* C20: a path is appended to the ledger only when every document of its file
\* has been written, so a path in the ledger has all its ceil(N/10) documents
\* in every state; an interrupt in the middle of a file appends nothing, and a
\* file that is not in the ledger is processed from its first sub-batch.
C20_LedgerAfterDocuments ==
    /\ [](\A f \in DOMAIN input_files : InLedger(f) => AllDocuments(f))
    /\ [][appended' # appended =>
             /\ spc = "returned"
             /\ appended' = Append(appended, files[f_idx])
             /\ AllDocuments(files[f_idx])]_vars
    /\ [][(InProcessFile /\ spc' = "stopped") =>
             /\ appended' = appended
             /\ ledger_text' = ledger_text]_vars
    /\ [][(spc = "for_files" /\ spc' \in {"meaning", "returned"}) =>
             /\ files[f_idx] \notin processed
             /\ words' = input_files[files[f_idx]]
             /\ all_content' = <<>>
             /\ spc' = "meaning" => (b_idx' = 1 /\ w_idx' = 1)]_vars

\* a run was interrupted after the first document of a file of 23 words, and
\* the next run is on the second document of that file again
C20_Witness ==
    /\ runs = 2
    /\ appended = <<>>
    /\ InProcessFile
    /\ Len(words) = 23
    /\ b_idx = 2
    /\ DocsOf(files[f_idx]) = {<<Base(files[f_idx]), <<0, 0, 1>>>>}

\* C21: a file of no words makes process_file return at once: no model call,
\* no document and no directory of its own, in any state; main's next step,
\* unless main ends there, records the path in the ledger file and in its
\* set, and the scans that follow in the run pass over the file.
C21_ZeroWordFile ==
    /\ [](\A f \in DOMAIN input_files :
             input_files[f] = <<>> => (Base(f) \notin out_dirs /\ DocsOf(f) = {}))
    /\ [](spc \in {"meaning", "sentences", "combine", "write_docx"} =>
             input_files[files[f_idx]] # <<>>)
    /\ []((spc = "returned" /\ input_files[files[f_idx]] = <<>>) =>
             step_log = <<<<>>, <<>>>>)
    /\ [][(spc = "for_files" /\ spc' \in {"meaning", "returned"}) =>
             (spc' = "returned" <=> input_files[files[f_idx]] = <<>>)]_vars
    /\ [][(spc = "for_files" /\ spc' = "returned") =>
             /\ out_dirs' = out_dirs
             /\ out_docs' = out_docs]_vars
    /\ [][(spc = "returned" /\ input_files[files[f_idx]] = <<>>
              /\ spc' \notin {"stopped", "crashed"}) =>
             /\ ledger_text' = ledger_text \o files[f_idx] \o <<LineFeed>>
             /\ appended' = Append(appended, files[f_idx])
             /\ processed' = processed \cup {files[f_idx]}
             /\ UNCHANGED <<out_dirs, out_docs>>]_vars
    /\ [][(SentRunning /\ SentRunning') => processed \subseteq processed']_vars
    /\ [][(spc = "for_files" /\ f_idx <= Len(files) /\ SentRunning'
              /\ files[f_idx] \in processed /\ input_files[files[f_idx]] = <<>>) =>
             /\ spc' = "for_files"
             /\ f_idx' = f_idx + 1
             /\ UNCHANGED <<ledger_text, appended, out_dirs, out_docs, step_log>>]_vars

\* the only file of input_dir has no words, the first scan of the first run
\* recorded it, and a later scan of that run is at the file again; output_dir
\* holds the ledger alone
C21_Witness ==
    /\ runs = 1
    /\ spc = "for_files"
    /\ Len(files) = 1
    /\ f_idx = 1
    /\ input_files[files[1]] = <<>>
    /\ appended = <<files[1]>>
    /\ files[1] \in processed
    /\ out_dirs = {}
    /\ out_docs = <<>>

\* C22: the slot changes only in a start that succeeds, which puts the new
\* Job in it, and in a stop, which empties it; a start that raises, status,
\* tail and a child that exits, writes or loses its log leave it as it was,
\* and status returns what the slot holds, an exited Job included.
C22_SlotFrame ==
    /\ [][current_job' # current_job =>
             /\ last' # last
             /\ last'.pre = current_job
             /\ \/ /\ last'.op = "start"
                   /\ last'.raised = ""
                   /\ last'.launched # 0
                   /\ current_job' = last'.ret_job
                   /\ current_job' # NoJob
                \/ /\ last'.op = "stop"
                   /\ current_job # NoJob
                   /\ current_job' = NoJob]_vars
    /\ [][(last' # last /\ last'.op = "start" /\ last'.raised # "") =>
             current_job' = current_job]_vars
    /\ [][(last' # last /\ last'.op \in {"status", "tail"}) =>
             current_job' = current_job]_vars
    /\ [][(last' # last /\ last'.op = "status") => last'.ret_job = current_job]_vars
    /\ [][last' = last => current_job' = current_job]_vars

\* the process of the only Job started so far exited on its own, no stop
\* abandoned anything, and status returns the exited Job, still in the slot
C22_Witness ==
    /\ last.op = "status"
    /\ last.ret_job # NoJob
    /\ current_job = last.ret_job
    /\ procs[current_job.process].state = "exited"
    /\ abandoned = {}
    /\ Len(procs) = 1
    /\ log_dir_exists

\* C24: extract_words applied to the newline-joined list it returned gives
\* that list again; every token it returns is trimmed, has no curly
\* apostrophe, passes the test of a line, and occurs once.
C24_Idempotent ==
    /\ first_res # NotCalled => res = first_res
    /\ res # NotCalled =>
          /\ \A i \in 1..Len(res) :
                /\ Strip(res[i]) = res[i]
                /\ ReplaceCurly(res[i]) = res[i]
                /\ Accepts(res[i])
                /\ \A c \in LineBreaks : c \notin Range(res[i])
          /\ \A i, j \in 1..Len(res) : i # j => res[i] # res[j]

\* the second call was made on a joined list of three tokens or more, one of
\* them with an apostrophe and one "de la" in capitals
C24_Witness ==
    /\ first_res # NotCalled
    /\ raw = JoinLines(first_res)
    /\ Len(res) >= 3
    /\ \E i \in 1..Len(res) : Apostrophe \in Range(res[i])
    /\ \E i \in 1..Len(res) : res[i] # DE_LA /\ Lower(res[i]) = DE_LA

\* the file process_file is working on has been recorded, or main has ended
RecordedOrEnded(f) ==
    \/ spc \in {"stopped", "crashed"}
    \/ spc = "for_files" /\ f \in processed /\ f \in Range(appended)

\* C23: process_file, once called for a file, goes on to its return whatever
\* the model calls do, and the return is followed by the recording of the
\* file, unless main ends before (Ctrl+C, or an error of the file system); a
\* model call that raises never ends the processing; a recorded file is only
\* passed over by the scans that follow in the run.
C23_AlwaysRecorded ==
    /\ \A f \in Paths : (InProcessFile /\ files[f_idx] = f) ~> RecordedOrEnded(f)
    /\ [][(InProcessFile /\ ~InProcessFile' /\ spc' \notin {"stopped", "crashed"}) =>
             /\ spc = "returned"
             /\ spc' = "for_files"
             /\ appended' = Append(appended, files[f_idx])
             /\ processed' = processed \cup {files[f_idx]}
             /\ ledger_text' = append_processed(ledger_text, files[f_idx])]_vars
    /\ [][(spc \in {"meaning", "sentences"} /\ spc' # "stopped") =>
             spc' \in {"meaning", "sentences", "combine"}]_vars
    /\ [][(spc = "for_files" /\ f_idx <= Len(files) /\ SentRunning'
              /\ files[f_idx] \in processed) =>
             /\ spc' = "for_files"
             /\ f_idx' = f_idx + 1
             /\ UNCHANGED <<ledger_text, appended, out_dirs, out_docs, processed>>]_vars

\* all six model calls for the only word of a file raised, its document is
\* made of the two placeholders, the file was recorded, and a later scan of
\* the run is at the file again
C23_Witness ==
    /\ runs = 1
    /\ spc = "for_files"
    /\ Len(files) = 1
    /\ f_idx = 1
    /\ files[1] \in processed
    /\ appended = <<files[1]>>
    /\ Len(input_files[files[1]]) = 1
    /\ DocsOf(files[1]) = {<<Base(files[1]), <<0, 0, 1>>>>}
    /\ out_docs[<<Base(files[1]), <<0, 0, 1>>>>][1].meaning = Placeholder
    /\ out_docs[<<Base(files[1]), <<0, 0, 1>>>>][1].sentences = Placeholder

====
